---- MODULE Spec2Model ----
(***************************************************************************)
(* A model of src/main.py: the Tethys scraper.  scrape_all_papers walks    *)
(* the tag/subtag taxonomy and paginates each subtag; scrape_page reads    *)
(* one listing table; scrape_page_urls follows every publication anchor.   *)
(* The web site is the environment: every fetch draws its outcome from a   *)
(* small set.  One action is one network fetch or one file write together  *)
(* with all the code that runs up to the next fetch or write.              *)
(***************************************************************************)
EXTENDS Integers, Sequences, FiniteSets, TLC

\* ------------------------------------------------------------- bounds
\* The walk is cut to the first two tags of the taxonomy: the first MaxSubtags
\* subtags of the first tag and the first subtag of the second.
MaxSubtags == 2
Cut == <<MaxSubtags, 1>>
\* The site serves at most MaxServed items in a run: every listing table of
\* the schema's width, every row of one and every publication anchor is an item.
MaxServed == 4

\* ---------------------------------------------------------- constants
TABLE_COLUMNS ==
  <<"title", "authors", "date", "content_type", "technology_type", "stressor", "receptor">>

TETHYS_URL(a, b, c) == "https://tethys.pnnl.gov" \o a \o b \o c

TETHYS_TAG_SUBTAG ==
  << [tag |-> "stressor",
      subtags |-> <<"chemicals", "dynamic-device", "emf", "energy-removal",
                    "lighting", "noise", "static-device">>],
     [tag |-> "receptor",
      subtags |-> <<"bats", "benthic-invertebrates", "birds", "ground-nesting-birds",
                    "passerines", "raptors", "seabirds", "shorebirds", "waterfowl",
                    "ecosystem", "fish", "marine-mammals", "sea-turtles",
                    "terrestrial-mammals", "farfield-environment", "nearfield-habitat",
                    "socio-economics", "aesthetics", "climate-change", "fishing",
                    "legal-and-policy", "navigation", "recreation",
                    "stakeholder-engagement">>],
     [tag |-> "technology-type",
      subtags |-> <<"marine-energy-general", "riverine", "ocean-current",
                    "otec", "salinity-gradient", "tidal", "wave", "wind-energy-general",
                    "land-based-wind", "offshore-wind">>],
     [tag |-> "interactions",
      subtags |-> <<"attraction", "avoidance", "changes-sediment-transport",
                    "changes-water-quality", "collisionevasion", "entrapment">>] >>

Min(a, b) == IF a < b THEN a ELSE b
Max(a, b) == IF a < b THEN b ELSE a

\* The taxonomy the walker iterates, in declared order.
NumTags == Min(Len(Cut), Len(TETHYS_TAG_SUBTAG))
TagName(ti) == TETHYS_TAG_SUBTAG[ti].tag
NumSubtags(ti) == Min(Cut[ti], Len(TETHYS_TAG_SUBTAG[ti].subtags))
SubtagName(ti, si) == TETHYS_TAG_SUBTAG[ti].subtags[si]

\* The folder main hands to scrape_all_papers.
fpath == "/Users/openamiguel/Desktop/tethys/"

\* ------------------------------------------------- values and pandas
None == [type |-> "None"]
NaN == "NaN"

\* pd.DataFrame(columns=...): no rows.
DataFrame(columns) == [type |-> "DataFrame", columns |-> columns, rows |-> <<>>]

\* pd.Series(values, name=...)
Series(values, name) == [type |-> "Series", name |-> name, values |-> values]

Range(f) == {f[i] : i \in DOMAIN f}

IndexOf(seq, x) == CHOOSE i \in 1..Len(seq) : seq[i] = x

\* One row of a frame with columns `from`, laid out on the columns `to`.
Reindex(row, from, to) ==
  [c \in 1..Len(to) |->
     IF to[c] \in Range(from) THEN row[IndexOf(from, to[c])] ELSE NaN]

\* Mutant: the page's rows go in front of the rows collected so far.
ConcatRowsPrepend(a, b) ==
  LET new == SelectSeq(b.columns, LAMBDA c : c \notin Range(a.columns))
      cols == a.columns \o new
  IN [type |-> "DataFrame", columns |-> cols,
      rows |-> [i \in 1..Len(b.rows) |-> Reindex(b.rows[i], b.columns, cols)]
               \o [i \in 1..Len(a.rows) |-> Reindex(a.rows[i], a.columns, cols)]]

\* pd.concat([a, b], sort=False): the rows of a, then the rows of b, on the
\* union of the columns in order of first appearance.
ConcatRows(a, b) ==
  LET new == SelectSeq(b.columns, LAMBDA c : c \notin Range(a.columns))
      cols == a.columns \o new
  IN [type |-> "DataFrame", columns |-> cols,
      rows |-> [i \in 1..Len(a.rows) |-> Reindex(a.rows[i], a.columns, cols)]
               \o [i \in 1..Len(b.rows) |-> Reindex(b.rows[i], b.columns, cols)]]

\* pd.concat([df, urls], axis=1, sort=False): a None object is dropped; a
\* Series is joined on the row index, the union of both indices.
ConcatCols(df, urls) ==
  IF urls = None THEN df
  ELSE LET n == Len(df.rows)
           m == Len(urls.values)
       IN [type |-> "DataFrame", columns |-> Append(df.columns, urls.name),
           rows |-> [i \in 1..Max(n, m) |->
                       (IF i <= n THEN df.rows[i]
                        ELSE [c \in 1..Len(df.columns) |-> NaN])
                       \o <<IF i <= m THEN urls.values[i] ELSE NaN>>]]

\* page_df.columns = names: ValueError on a length mismatch.
SetColumns(df, names) ==
  IF Len(df.columns) = Len(names)
  THEN [df EXCEPT !.columns = names]
  ELSE [type |-> "ValueError", msg |-> "Length mismatch"]

\* ------------------------------------------------------------ the site
\* The listing URL, as scrape_page builds it.
TagSubtagUrl(tag, subtag, pn) ==
  LET pagenum_suffix == IF pn > 0 THEN "?page=" \o ToString(pn) ELSE ""
  IN TETHYS_URL("/" \o tag, "/" \o subtag, pagenum_suffix)

\* Mutant: the suffix is added for page index 0 too.
PageUrlAlways(tag, subtag, pn) ==
  LET pagenum_suffix == IF pn >= 0 THEN "?page=" \o ToString(pn) ELSE ""
  IN TETHYS_URL("/" \o tag, "/" \o subtag, pagenum_suffix)

\* The listing URL, as scrape_page_urls builds it.
PageUrl(tag, subtag, pn) ==
  LET pagenum_suffix == IF pn > 0 THEN "?page=" \o ToString(pn) ELSE ""
  IN TETHYS_URL("/" \o tag, "/" \o subtag, pagenum_suffix)

\* Column counts a matched table may have.
ColCounts == {Len(TABLE_COLUMNS) - 1, Len(TABLE_COLUMNS), Len(TABLE_COLUMNS) + 1}

\* What pd.read_html returns for the first matched table of a listing page:
\* c columns under the site's own headers and n rows; the cell text names
\* the place the site served it from.
SiteTable(tag, subtag, pn, c, n) ==
  [type |-> "DataFrame",
   columns |-> [k \in 1..c |-> IF k = 1 THEN "Title" ELSE "Column" \o ToString(k)],
   rows |-> [i \in 1..n |-> [k \in 1..c |->
               tag \o "/" \o subtag \o "/" \o ToString(pn) \o "/row" \o ToString(i)
                   \o "/col" \o ToString(k)]]]

\* The hrefs of the page's anchors that match "/publications/", in document
\* order.
SiteAnchors(tag, subtag, pn, m) ==
  [j \in 1..m |-> "/publications/" \o tag \o "-" \o subtag \o "-" \o ToString(pn)
                    \o "-" \o ToString(j)]

\* An anchor of a detail page: its text and the href the site gives it.
Anchor(text, link_end) ==
  [text |-> text,
   href |-> IF text = "External Link" THEN "https://doi.org" \o link_end
            ELSE IF text = "Access File" THEN "/sites/default/files" \o link_end \o ".pdf"
            ELSE "/about"]

\* BeautifulSoup(html): the anchors of a detail page in document order.
BeautifulSoup(texts, link_end) ==
  [type |-> "Soup", anchors |-> [i \in 1..Len(texts) |-> Anchor(texts[i], link_end)]]

\* The anchor texts a detail page may carry, in document order.
DetailTexts ==
  { <<>>, <<"External Link">>, <<"Access File">>,
    <<"Access File", "External Link">>, <<"Tethys">> }

\* soup.find('a', href=True, text=...): the first such anchor, or None.
Find(soup, text) ==
  LET a == soup.anchors
  IN IF \E i \in 1..Len(a) : a[i].text = text
     THEN a[CHOOSE i \in 1..Len(a) :
              /\ a[i].text = text
              /\ \A k \in 1..(i - 1) : a[k].text # text]
     ELSE None

\* Mutant: the file link is looked for first.
PubLinkFileFirst(tethys_pub_link, soup) ==
  IF Find(soup, "Access File") # None
  THEN [pub_link |-> Find(soup, "Access File").href, warned |-> FALSE]
  ELSE IF Find(soup, "External Link") # None
       THEN [pub_link |-> Find(soup, "External Link").href, warned |-> FALSE]
       ELSE [pub_link |-> tethys_pub_link, warned |-> TRUE]

\* The link recorded for one publication, and whether the warning is logged.
PubLink(tethys_pub_link, soup) ==
  IF Find(soup, "External Link") # None
  THEN [pub_link |-> Find(soup, "External Link").href, warned |-> FALSE]
  ELSE IF Find(soup, "Access File") # None
       THEN [pub_link |-> Find(soup, "Access File").href, warned |-> FALSE]
       ELSE [pub_link |-> tethys_pub_link, warned |-> TRUE]

\* ---------------------------------------------------------------- state
VARIABLES
  pc,            \* where the run is: the next fetch or write, "done" or "raised"
  ti, si,        \* the tag and the subtag of the two for loops (indices)
  pagenum,       \* scrape_all_papers: pagenum
  tag_df,        \* scrape_all_papers: tag_df
  subtag_df,     \* scrape_all_papers: subtag_df
  page_df,       \* scrape_page: page_df after the schema is assigned, or None
  anchors,       \* scrape_page_urls: the hrefs soup.findAll returned
  pub_link_list, \* scrape_page_urls: pub_link_list
  urls,          \* what scrape_page_urls returned to scrape_page, or None
  ret,           \* what the last call of scrape_page returned, or NoCall
  written,       \* the to_csv calls so far, in order: [name, data]
  returned,      \* TRUE once scrape_all_papers has returned True
  log,           \* the error, warning and critical records of the current
                 \* scrape_page call, in order
  calls,         \* the pagenum arguments of the scrape_page calls of this subtag
  table_url,     \* the URL of the last pd.read_html
  page_url,      \* the URL of the last listing urlopen
  outcome,       \* how the last pd.read_html ended
  soup,          \* the detail page fetched last for the current listing page
  found,         \* the rows scrape_page returned for this subtag, as returned
  discovered,    \* per subtag file written: the page indices tried and the rows found
  trace,         \* fetches (one entry per run of fetches of a subtag) and writes
  served         \* the items the site has served so far

vars ==
  << pc, ti, si, pagenum, tag_df, subtag_df, page_df, anchors, pub_link_list,
     urls, ret, written, returned, log, calls, table_url, page_url, outcome,
     soup, found, discovered, trace, served >>

NoCall == [type |-> "NoCall"]

tag == TagName(ti)
subtag == SubtagName(ti, si)

Record(level, msg) == [level |-> level, msg |-> msg]

FetchEvent == [event |-> "fetch", tag |-> tag, subtag |-> subtag]
WriteEvent(name) == [event |-> "write", name |-> name]

\* A fetch for the current subtag enters the trace once per run of fetches.
Fetched(tr) ==
  IF Len(tr) > 0 /\ tr[Len(tr)] = FetchEvent THEN tr ELSE Append(tr, FetchEvent)

\* The rows of a frame, each with the columns it was returned under.
RowsOf(df) == [i \in 1..Len(df.rows) |-> [columns |-> df.columns, cells |-> df.rows[i]]]

Init ==
  /\ pc = "read_html"
  /\ ti = 1
  /\ si = 1
  /\ pagenum = 0
  /\ tag_df = DataFrame(TABLE_COLUMNS)
  /\ subtag_df = DataFrame(TABLE_COLUMNS)
  /\ page_df = None
  /\ anchors = <<>>
  /\ pub_link_list = <<>>
  /\ urls = None
  /\ ret = NoCall
  /\ written = <<>>
  /\ returned = FALSE
  /\ log = <<>>
  /\ calls = <<>>
  /\ table_url = ""
  /\ page_url = ""
  /\ outcome = "none"
  /\ soup = None
  /\ found = <<>>
  /\ discovered = <<>>
  /\ trace = <<>>
  /\ served = 0

\* ------------------------------------------------- scrape_all_papers
\* Mutant: the walker stops paginating after its first page.
LoopBodyOnePage(r) ==
  /\ ret' = r
  /\ IF r = None \/ pagenum >= 1
     THEN /\ pc' = "write_subtag"
          /\ UNCHANGED <<subtag_df, pagenum, found>>
     ELSE /\ subtag_df' = ConcatRows(subtag_df, r)
          /\ found' = found \o RowsOf(r)
          /\ pagenum' = pagenum + 1
          /\ pc' = "read_html"

\* Mutant: the page index advances by two.
LoopBodySkip(r) ==
  /\ ret' = r
  /\ IF r = None
     THEN /\ pc' = "write_subtag"
          /\ UNCHANGED <<subtag_df, pagenum, found>>
     ELSE /\ subtag_df' = ConcatRows(subtag_df, r)
          /\ found' = found \o RowsOf(r)
          /\ pagenum' = pagenum + 2
          /\ pc' = "read_html"

\* The body of the while loop once scrape_page has returned r: break on None,
\* else merge the page into subtag_df and go to the next page index.
LoopBody(r) ==
  /\ ret' = r
  /\ IF r = None
     THEN /\ pc' = "write_subtag"
          /\ UNCHANGED <<subtag_df, pagenum, found>>
     ELSE /\ subtag_df' = ConcatRows(subtag_df, r)
          /\ found' = found \o RowsOf(r)
          /\ pagenum' = pagenum + 1
          /\ pc' = "read_html"

SubtagFile(t, s) == fpath \o t \o "-" \o s \o ".csv"
TagFile(t) == fpath \o t \o ".csv"

\* Mutant: a subtag with no rows gets no file.
WriteSubtagSkipEmpty ==
  /\ pc = "write_subtag"
  /\ IF Len(subtag_df.rows) = 0
     THEN UNCHANGED <<written, trace>>
     ELSE /\ written' = Append(written, [name |-> SubtagFile(tag, subtag), data |-> subtag_df])
          /\ trace' = Append(trace, WriteEvent(SubtagFile(tag, subtag)))
  /\ tag_df' = ConcatRows(tag_df, subtag_df)
  /\ IF si < NumSubtags(ti)
     THEN /\ si' = si + 1
          /\ subtag_df' = DataFrame(TABLE_COLUMNS)
          /\ pagenum' = 0
          /\ calls' = <<>>
          /\ found' = <<>>
          /\ ret' = NoCall
          /\ pc' = "read_html"
     ELSE /\ pc' = "write_tag"
          /\ UNCHANGED <<si, subtag_df, pagenum, calls, found, ret>>
  /\ discovered' = Append(discovered, [name |-> SubtagFile(tag, subtag), calls |-> calls, rows |-> found])
  /\ log' = <<>>
  /\ outcome' = "none"
  /\ table_url' = ""
  /\ page_url' = ""
  /\ UNCHANGED <<ti, page_df, anchors, pub_link_list, urls, returned, soup, served>>

\* subtag_df.to_csv, the merge into tag_df, and the step of the subtag loop.
WriteSubtag ==
  /\ pc = "write_subtag"
  /\ written' = Append(written, [name |-> SubtagFile(tag, subtag), data |-> subtag_df])
  /\ trace' = Append(trace, WriteEvent(SubtagFile(tag, subtag)))
  /\ tag_df' = ConcatRows(tag_df, subtag_df)
  /\ IF si < NumSubtags(ti)
     THEN /\ si' = si + 1
          /\ subtag_df' = DataFrame(TABLE_COLUMNS)
          /\ pagenum' = 0
          /\ calls' = <<>>
          /\ found' = <<>>
          /\ ret' = NoCall
          /\ pc' = "read_html"
     ELSE /\ pc' = "write_tag"
          /\ UNCHANGED <<si, subtag_df, pagenum, calls, found, ret>>
  /\ discovered' = Append(discovered, [name |-> SubtagFile(tag, subtag), calls |-> calls, rows |-> found])
  /\ log' = <<>>
  /\ outcome' = "none"
  /\ table_url' = ""
  /\ page_url' = ""
  /\ UNCHANGED <<ti, page_df, anchors, pub_link_list, urls, returned, soup, served>>

\* tag_df.to_csv and the step of the tag loop; after the last tag, return True.
WriteTag ==
  /\ pc = "write_tag"
  /\ written' = Append(written, [name |-> TagFile(tag), data |-> tag_df])
  /\ trace' = Append(trace, WriteEvent(TagFile(tag)))
  /\ IF ti < NumTags
     THEN /\ ti' = ti + 1
          /\ si' = 1
          /\ tag_df' = DataFrame(TABLE_COLUMNS)
          /\ subtag_df' = DataFrame(TABLE_COLUMNS)
          /\ pagenum' = 0
          /\ calls' = <<>>
          /\ found' = <<>>
          /\ ret' = NoCall
          /\ pc' = "read_html"
          /\ UNCHANGED returned
     ELSE /\ pc' = "done"
          /\ returned' = TRUE
          /\ UNCHANGED <<ti, si, tag_df, subtag_df, pagenum, calls, found, ret>>
  /\ UNCHANGED <<discovered, page_df, anchors, pub_link_list, urls, log, table_url, page_url,
                 outcome, soup, served>>

\* ------------------------------------------------------- scrape_page
\* What every pd.read_html step does first: a new call of scrape_page with
\* fresh locals, the URL built and requested.
StartCall ==
  /\ pc = "read_html"
  /\ calls' = Append(calls, pagenum)
  /\ table_url' = TagSubtagUrl(tag, subtag, pagenum)
  /\ trace' = Fetched(trace)
  /\ anchors' = <<>>
  /\ pub_link_list' = <<>>
  /\ urls' = None
  /\ soup' = None
  /\ page_url' = ""

\* pd.read_html raises HTTPError: logged, scrape_page returns None.
ReadHtmlHTTPError ==
  /\ StartCall
  /\ outcome' = "HTTPError"
  /\ log' = << Record("error", "HTTPError"),
               Record("error", "This error found at URL " \o table_url') >>
  /\ page_df' = None
  /\ LoopBody(None)
  /\ UNCHANGED <<discovered, ti, si, tag_df, written, returned, served>>

\* pd.read_html raises a URLError that is no HTTPError (no route, refused,
\* name not resolved): neither except clause matches.
ReadHtmlURLError ==
  /\ StartCall
  /\ outcome' = "URLError"
  /\ log' = <<>>
  /\ page_df' = None
  /\ pc' = "raised"
  /\ UNCHANGED <<discovered, ti, si, pagenum, tag_df, subtag_df, ret, written, returned, found, served>>

\* pd.read_html finds no table matching "Title": ValueError, None.
ReadHtmlNoTables ==
  /\ StartCall
  /\ outcome' = "NoTables"
  /\ log' = << Record("error", "No tables found"),
               Record("error", "URL " \o table_url' \o " does not have a table of papers") >>
  /\ page_df' = None
  /\ LoopBody(None)
  /\ UNCHANGED <<discovered, ti, si, tag_df, written, returned, served>>

\* page_df.columns = TABLE_COLUMNS
AssignSchema(df) == SetColumns(df, TABLE_COLUMNS)

\* pd.read_html returns k >= 1 matching tables, the first with c columns and
\* n rows.  A wrong width is logged and returns None; else on to the links.
ReadHtmlTables(k, c, n) ==
  /\ StartCall
  /\ c = Len(TABLE_COLUMNS) => served + 1 + n <= MaxServed
  /\ c # Len(TABLE_COLUMNS) => n = 0
  /\ LET first == SiteTable(tag, subtag, pagenum, c, n)
         warn == IF k > 1
                 THEN << Record("warning", "WARNING: multiple tables at " \o table_url'
                                           \o " that might contain paper data") >>
                 ELSE <<>>
         df == AssignSchema(first)
     IN IF df.type = "ValueError"
        THEN /\ outcome' = "LengthMismatch"
             /\ log' = warn \o
                       << Record("error", df.msg),
                          Record("error", "First match of table at URL " \o table_url'
                                          \o " does not contain paper data") >>
             /\ page_df' = None
             /\ LoopBody(None)
             /\ UNCHANGED served
        ELSE /\ outcome' = "Table"
             /\ log' = warn
             /\ page_df' = df
             /\ served' = served + 1 + n
             /\ pc' = "urlopen"
             /\ UNCHANGED <<pagenum, subtag_df, ret, found>>
  /\ UNCHANGED <<discovered, ti, si, tag_df, written, returned>>

\* -------------------------------------------------- scrape_page_urls
\* scrape_page_urls returns u; scrape_page merges it onto page_df and returns
\* the merged frame to the while loop.
FinishPage(u) ==
  /\ urls' = u
  /\ LoopBody(ConcatCols(page_df, u))

\* urlopen of the listing raises HTTPError: logged critical, None returned.
UrlOpenHTTPError ==
  /\ pc = "urlopen"
  /\ page_url' = PageUrl(tag, subtag, pagenum)
  /\ trace' = Fetched(trace)
  /\ log' = log \o
       << Record("critical", "HTTPError"),
          Record("critical", "CRITICAL!!! A NoneType object was returned by scrape_page_urls, "
                             \o "which will break the scrape_page code at Line 131") >>
  /\ FinishPage(None)
  /\ UNCHANGED <<discovered, ti, si, tag_df, page_df, anchors, pub_link_list, written, returned,
                 calls, table_url, outcome, soup, served>>

\* urlopen of the listing raises a URLError that is no HTTPError.
UrlOpenURLError ==
  /\ pc = "urlopen"
  /\ page_url' = PageUrl(tag, subtag, pagenum)
  /\ trace' = Fetched(trace)
  /\ pc' = "raised"
  /\ UNCHANGED <<discovered, ti, si, pagenum, tag_df, subtag_df, page_df, anchors, pub_link_list,
                 urls, ret, written, returned, log, calls, table_url, outcome, soup,
                 found, served>>

\* urlopen of the listing succeeds; the page has m publication anchors.
UrlOpenOk(m) ==
  /\ pc = "urlopen"
  /\ served + m <= MaxServed
  /\ page_url' = PageUrl(tag, subtag, pagenum)
  /\ trace' = Fetched(trace)
  /\ anchors' = SiteAnchors(tag, subtag, pagenum, m)
  /\ served' = served + m
  /\ IF m = 0
     THEN FinishPage(Series(pub_link_list, "paper_url"))
     ELSE /\ pc' = "detail"
          /\ UNCHANGED <<pagenum, subtag_df, urls, ret, found>>
  /\ UNCHANGED <<discovered, ti, si, tag_df, page_df, pub_link_list, written, returned, log,
                 calls, table_url, outcome, soup>>

\* urlopen of a publication's detail page raises: nothing catches it.
DetailFetchError ==
  /\ pc = "detail"
  /\ trace' = Fetched(trace)
  /\ pc' = "raised"
  /\ UNCHANGED <<discovered, ti, si, pagenum, tag_df, subtag_df, page_df, anchors, pub_link_list,
                 urls, ret, written, returned, log, calls, table_url, page_url,
                 outcome, soup, found, served>>

\* The detail page of the next anchor is fetched; its anchors carry the texts
\* `texts`.  The link is chosen and appended; after the last anchor the list
\* is returned as a Series.
DetailFetchOk(texts) ==
  /\ pc = "detail"
  /\ trace' = Fetched(trace)
  /\ LET link_end == anchors[Len(pub_link_list) + 1]
         tethys_pub_link == TETHYS_URL(link_end, "", "")
         tethys_pub_soup == BeautifulSoup(texts, link_end)
         r == PubLink(tethys_pub_link, tethys_pub_soup)
     IN /\ soup' = tethys_pub_soup
        /\ pub_link_list' = Append(pub_link_list, r.pub_link)
        /\ log' = IF r.warned
                  THEN log \o
                    << Record("warning", "Did not find any source link at Tethys link "
                                         \o tethys_pub_link),
                       Record("warning", "In lieu of source link, the Tethys description "
                                         \o "link was provided.") >>
                  ELSE log
  /\ IF Len(pub_link_list') = Len(anchors)
     THEN FinishPage(Series(pub_link_list', "paper_url"))
     ELSE /\ pc' = "detail"
          /\ UNCHANGED <<pagenum, subtag_df, urls, ret, found>>
  /\ UNCHANGED <<discovered, ti, si, tag_df, page_df, anchors, written, returned, calls,
                 table_url, page_url, outcome, served>>

\* ------------------------------------------------------ specification
Next ==
  \/ ReadHtmlHTTPError
  \/ ReadHtmlURLError
  \/ ReadHtmlNoTables
  \/ \E k \in 1..2, c \in ColCounts, n \in 0..MaxServed : ReadHtmlTables(k, c, n)
  \/ UrlOpenHTTPError
  \/ UrlOpenURLError
  \/ \E m \in 0..MaxServed : UrlOpenOk(m)
  \/ DetailFetchError
  \/ \E texts \in DetailTexts : DetailFetchOk(texts)
  \/ WriteSubtag
  \/ WriteTag

Spec == Init /\ [][Next]_vars

\* The process is sequential and blocking: a step that can be taken is taken.
FairSpec == Spec /\ WF_vars(Next)

\* ------------------------------------------------------------ claims
\* The cell of a row under the column named c, NaN where the frame has no
\* such column.
CellOf(cells, columns, c) ==
  IF \E k \in 1..Len(columns) : columns[k] = c
  THEN cells[CHOOSE k \in 1..Len(columns) : columns[k] = c]
  ELSE NaN

\* The rows of df are the rows `rows`, in order, cell for cell.
SameRows(rows, df) ==
  /\ Len(df.rows) = Len(rows)
  /\ \A i \in 1..Len(rows) :
       \A c \in Range(df.columns) \cup Range(rows[i].columns) :
         CellOf(df.rows[i], df.columns, c) = CellOf(rows[i].cells, rows[i].columns, c)

\* The rows of the files written at places lo..hi, in that order.
RECURSIVE Flatten(_, _)
Flatten(lo, hi) ==
  IF lo > hi THEN <<>>
  ELSE [i \in 1..Len(written[lo].data.rows) |->
          [columns |-> written[lo].data.columns, cells |-> written[lo].data.rows[i]]]
       \o Flatten(lo + 1, hi)

IsPrefix(a, b) == Len(a) <= Len(b) /\ \A i \in 1..Len(a) : a[i] = b[i]

\* What a complete walk of the taxonomy fetches and writes, in order.
RECURSIVE SubtagsTrace(_, _)
SubtagsTrace(t, s) ==
  IF s > NumSubtags(t) THEN <<>>
  ELSE << [event |-> "fetch", tag |-> TagName(t), subtag |-> SubtagName(t, s)],
          [event |-> "write", name |-> fpath \o TagName(t) \o "-" \o SubtagName(t, s) \o ".csv"] >>
       \o SubtagsTrace(t, s + 1)

RECURSIVE WalkTrace(_)
WalkTrace(t) ==
  IF t > NumTags THEN <<>>
  ELSE SubtagsTrace(t, 1)
       \o << [event |-> "write", name |-> fpath \o TagName(t) \o ".csv"] >>
       \o WalkTrace(t + 1)

WritesOf(tr) == SelectSeq(tr, LAMBDA e : e.event = "write")

\* C1: within a subtag the page indices passed to scrape_page are 0, 1, 2, ...
\* with no gap and no repeat; a further index is passed only while no call
\* has returned absent; after an absent result the subtag is left for a later
\* one and never fetched again.
C1_PageIndicesInOrder ==
  [][ /\ calls' = [i \in 1..Len(calls') |-> i - 1]
      /\ (calls' # calls) =>
           \/ /\ calls' = Append(calls, Len(calls))
              /\ <<ti', si'>> = <<ti, si>>
              /\ ret # None
           \/ /\ calls' = <<>>
              /\ ret = None
              /\ <<ti', si'>> # <<ti, si>>
      /\ (<<ti', si'>> # <<ti, si>>) => (ti' > ti \/ (ti' = ti /\ si' > si))
      /\ (ret' = None) => pc' \in {"write_subtag", "write_tag", "done"} ]_vars

\* C1, its case: page 0 had rows, page 1 was absent, pagination has stopped.
C1_Witness ==
  /\ calls = <<0, 1>>
  /\ ret = None
  /\ pc = "write_subtag"
  /\ Len(subtag_df.rows) > 0

\* C2: every page result scrape_page returns carries exactly the 8 named
\* columns in order, whatever the table fetch and the link fetch did, and a
\* table of another width is returned as absent.
C2_EightColumns ==
  /\ ret.type = "DataFrame" =>
       ret.columns = << "title", "authors", "date", "content_type", "technology_type",
                        "stressor", "receptor", "paper_url" >>
  /\ outcome = "LengthMismatch" => ret = None

\* C3: no exception escapes scrape_all_papers, whatever fetch fails.
C3_NoExceptionEscapes == pc # "raised"

\* C4: the link recorded for a publication is the "External Link" href if the
\* detail page has one, else the "Access File" href if it has one, else the
\* detail-page URL; the warning is logged in the last case and only then.
C4_LinkPriority ==
  soup # None =>
    LET j == Len(pub_link_list)
        link == pub_link_list[j]
        detail == "https://tethys.pnnl.gov" \o anchors[j]
        ext == {a \in Range(soup.anchors) : a.text = "External Link"}
        file == {a \in Range(soup.anchors) : a.text = "Access File"}
        warning == [level |-> "warning",
                    msg |-> "Did not find any source link at Tethys link " \o detail]
    IN /\ j >= 1
       /\ ext # {} => link \in {a.href : a \in ext}
       /\ (ext = {} /\ file # {}) => link \in {a.href : a \in file}
       /\ (ext = {} /\ file = {}) => link = detail
       /\ (warning \in Range(log)) <=> (ext = {} /\ file = {})

\* C4, its case: a detail page with both anchors, the file anchor first, and
\* the external link recorded.
C4_Witness ==
  /\ soup # None
  /\ \E a \in Range(soup.anchors) : a.text = "External Link"
  /\ \E a \in Range(soup.anchors) : a.text = "Access File"
  /\ soup.anchors[1].text = "Access File"
  /\ Len(pub_link_list) >= 1

\* C5: the merged page result has exactly as many rows as the metadata table,
\* row i holding the table's i-th record and the i-th anchor's link (no link
\* where the page has fewer anchors), the link sequence having one entry per
\* anchor, for every number of rows and of anchors.
C5_RowForRow ==
  (ret.type = "DataFrame" /\ urls.type = "Series") =>
    /\ Len(urls.values) = Len(anchors)
    /\ Len(ret.rows) = Len(page_df.rows)
    /\ \A i \in 1..Len(page_df.rows) :
         /\ i <= Len(ret.rows)
         /\ ret.rows[i] = page_df.rows[i]
                            \o << IF i <= Len(urls.values) THEN urls.values[i] ELSE NaN >>

\* C6: every subtag file holds the rows of that subtag's page results in
\* page order and within-page order; every tag file holds the rows of that
\* tag's subtag files in subtag-list order: none dropped, duplicated,
\* reordered or taken from another tag.
C6_DiscoveryOrder ==
  /\ \A k \in 1..Len(discovered) :
       \E w \in 1..Len(written) :
         /\ written[w].name = discovered[k].name
         /\ SameRows(discovered[k].rows, written[w].data)
  /\ \A t \in 1..NumTags : \A w \in 1..Len(written) :
       written[w].name = fpath \o TagName(t) \o ".csv" =>
         LET n == NumSubtags(t)
         IN /\ w > n
            /\ \A i \in 1..n :
                 written[w - n + i - 1].name
                   = fpath \o TagName(t) \o "-" \o SubtagName(t, i) \o ".csv"
            /\ SameRows(Flatten(w - n, w - 1), written[w].data)

\* C6, its case: a tag file of two rows found under two different subtags.
C6_Witness ==
  \E w \in 3..Len(written) :
    /\ written[w].name = fpath \o TagName(1) \o ".csv"
    /\ Len(written[w].data.rows) = 2
    /\ Len(written[1].data.rows) = 1
    /\ Len(written[2].data.rows) = 1

\* C7: the fetches and writes happen in the order of the walk: all fetches of
\* a subtag, then its file, then the next subtag, and a tag's file after its
\* last subtag file and before the next tag; a completed run has written
\* every file exactly once; a subtag whose page 0 is absent gets a file of 0
\* rows and adds no row to the tag file.
C7_FilesWritten ==
  /\ IsPrefix(trace, WalkTrace(1))
  /\ [w \in 1..Len(written) |-> written[w].name]
       = [w \in 1..Len(WritesOf(trace)) |-> WritesOf(trace)[w].name]
  /\ pc = "done" =>
       /\ trace = WalkTrace(1)
       /\ \A w1, w2 \in 1..Len(written) : written[w1].name = written[w2].name => w1 = w2
  /\ \A k \in 1..Len(discovered) :
       discovered[k].calls = <<0>> =>
         \A w \in 1..Len(written) :
           written[w].name = discovered[k].name => Len(written[w].data.rows) = 0
  /\ \A t \in 1..NumTags : \A w \in 1..Len(written) :
       (written[w].name = fpath \o TagName(t) \o ".csv" /\ w > NumSubtags(t)) =>
         Len(written[w].data.rows) = Len(Flatten(w - NumSubtags(t), w - 1))

\* C7, its case: a completed run in which the first subtag had no page 0 and
\* another subtag had rows.
C7_Witness ==
  /\ pc = "done"
  /\ discovered[1].calls = <<0>>
  /\ \E k \in 1..Len(discovered) : Len(discovered[k].rows) > 0

\* C8: scrape_page and scrape_page_urls request the same listing URL,
\* base/tag/subtag with no suffix at page index 0 and "?page=" and the index
\* from index 1 on; "?page=0" is never requested.
C8_SameListingUrl ==
  /\ table_url # "" =>
       /\ Len(calls) >= 1
       /\ table_url = "https://tethys.pnnl.gov" \o "/" \o tag \o "/" \o subtag
                        \o (IF calls[Len(calls)] = 0 THEN ""
                            ELSE "?page=" \o ToString(calls[Len(calls)]))
       /\ table_url # "https://tethys.pnnl.gov" \o "/" \o tag \o "/" \o subtag \o "?page=0"
  /\ page_url # "" => page_url = table_url

\* C8, its case: the links of page index 1 are being fetched.
C8_Witness ==
  /\ pc = "detail"
  /\ pagenum = 1
  /\ page_url # ""

StopOutcomes == {"HTTPError", "NoTables", "LengthMismatch"}

\* C9: once a call of scrape_page is over, the loop is in STOP (absent
\* returned, pagination ended) exactly when the table fetch raised an HTTP
\* error, matched no table or matched a table of the wrong width; in every
\* other case a result was returned and merged and the loop goes on.
C9_TwoStateLoop ==
  (outcome # "none" /\ pc \notin {"urlopen", "detail"}) =>
     IF outcome \in StopOutcomes
     THEN ret = None /\ pc = "write_subtag"
     ELSE /\ ret.type = "DataFrame"
          /\ pc = "read_html"
          /\ Len(subtag_df.rows) >= Len(ret.rows)

\* C10: a run in which no fetch raises ends with the last tag file written
\* and True returned; the loop of a subtag is left, and a file written, only
\* after scrape_page has returned absent for that subtag: the walker itself
\* puts no bound on the page index.
C10_Terminates ==
  /\ <>(pc = "raised"
        \/ (/\ pc = "done"
            /\ returned
            /\ written[Len(written)].name = fpath \o TagName(NumTags) \o ".csv"))
  /\ [][ (Len(written') > Len(written) \/ <<ti', si'>> # <<ti, si>>) => ret = None ]_vars

\* C10, its case: a completed run, every subtag having ended on an absent page.
C10_Witness ==
  /\ pc = "done"
  /\ returned
  /\ \A k \in 1..Len(discovered) : Len(discovered[k].calls) >= 1
  /\ \E k \in 1..Len(discovered) : Len(discovered[k].calls) >= 2

====
